---- MODULE Spec2Model ----
(***************************************************************************)
(* The plagiarism checker of plagiarism_checker_own.py as a state machine. *)
(*                                                                         *)
(* The program is a Streamlit script: every user interaction re-runs the   *)
(* whole script from the top with the widgets' current values, and a       *)
(* st.button call returns True only in the run its own click triggered.    *)
(* One action of the model is one interaction together with the script     *)
(* run it triggers.                                                        *)
(*                                                                         *)
(* A text is the sequence of its whitespace-delimited words (lower-case    *)
(* alphanumeric strings); a file name is the pair os.path.splitext makes   *)
(* of it, [base, ext].  A similarity score is held in millionths, rounded  *)
(* down; a "Similarity (%)" value is held in hundredths of a percent.      *)
(***************************************************************************)
EXTENDS Integers, Sequences, FiniteSets, TLC

VARIABLES
    page, authenticated, role,      \* st.session_state
    folder, store,                  \* the directory source_files and its entries, in listdir order
    source_files, code_files,       \* the two file_uploader widgets
    pasted_code, github_search,     \* the text_area and the checkbox
    trigger,                        \* the interaction that caused the last script run
    error,                          \* the exception that ended the last script run, or "none"
    all_results,                    \* one entry per submission scored in the last run
    rejected,                       \* names reported by st.error as not valid Python
    file_status, filtered_files,    \* the verdicts and the eligible list of the last run
    counts,                         \* the five summary tiles
    store_at_pass,                  \* the store as the last scoring pass read it
    saved                           \* the entry names written by the save block in the last run

vars == <<page, authenticated, role, folder, store, source_files, code_files, pasted_code,
          github_search, trigger, error, all_results, rejected, file_status, filtered_files,
          counts, store_at_pass, saved>>

----------------------------------------------------------------------------
(* Bounds of the model.                                                    *)

MaxCodeFiles == 2       \* files held by the "Upload Code File" widget
MaxSourceFiles == 1     \* files held by the "Upload Source Files" widget
MaxStoreEntries == 2    \* entries of the directory source_files
MaxContentChars == 26   \* characters of words in a store entry grown by upload

----------------------------------------------------------------------------
(* Small helpers.                                                          *)

RECURSIVE Flatten(_)
Flatten(ss) == IF ss = <<>> THEN <<>> ELSE Head(ss) \o Flatten(Tail(ss))

Rep(w, n) == [i \in 1..n |-> w]

Range(s) == {s[i] : i \in DOMAIN s}

RECURSIVE Chars(_)
Chars(text) == IF text = <<>> THEN 0 ELSE Len(Head(text)) + Chars(Tail(text))

(* Unbounded naturals for the cosine: little-endian digits in base Base.   *)
Base == 10000

BigOf(n) == <<n % Base, (n \div Base) % Base, n \div (Base * Base)>>

RECURSIVE Carry(_, _, _)
Carry(raw, i, c) ==
    IF i > Len(raw)
    THEN IF c = 0 THEN <<>> ELSE <<c % Base>> \o Carry(raw, i, c \div Base)
    ELSE <<(raw[i] + c) % Base>> \o Carry(raw, i + 1, (raw[i] + c) \div Base)

RECURSIVE Column(_, _, _, _)
Column(a, b, k, i) ==
    IF i > Len(a) THEN 0
    ELSE (IF k + 1 - i \in DOMAIN b THEN a[i] * b[k + 1 - i] ELSE 0) + Column(a, b, k, i + 1)

BigMul(a, b) == Carry([k \in 1..(Len(a) + Len(b) - 1) |-> Column(a, b, k, 1)], 1, 0)

BigSquare(a) == BigMul(a, a)

Limb(a, i) == IF i \in DOMAIN a THEN a[i] ELSE 0

RECURSIVE BigLeqFrom(_, _, _)
BigLeqFrom(a, b, i) ==
    IF i = 0 THEN TRUE
    ELSE IF Limb(a, i) < Limb(b, i) THEN TRUE
    ELSE IF Limb(a, i) > Limb(b, i) THEN FALSE
    ELSE BigLeqFrom(a, b, i - 1)

BigLeq(a, b) == BigLeqFrom(a, b, IF Len(a) > Len(b) THEN Len(a) ELSE Len(b))

(* The largest s in lo..hi with s * s * den <= num (lo is one such).       *)
RECURSIVE FloorRoot(_, _, _, _)
Halve(den, num, lo, hi, mid) ==
    IF BigLeq(BigMul(BigSquare(BigOf(mid)), den), num)
    THEN FloorRoot(den, num, mid, hi)
    ELSE FloorRoot(den, num, lo, mid - 1)

FloorRoot(den, num, lo, hi) ==
    IF lo = hi THEN lo ELSE Halve(den, num, lo, hi, (lo + hi + 1) \div 2)

----------------------------------------------------------------------------
(* The similarity scorer: TfidfVectorizer (defaults) over the two texts,   *)
(* then cosine_similarity of the two rows.                                 *)

(* token_pattern (?u)\b\w\w+\b: runs of two or more word characters.       *)
Tokens(text) == SelectSeq(text, LAMBDA w : Len(w) >= 2)

Count(toks, w) == Cardinality({i \in DOMAIN toks : toks[i] = w})

(* The sum over the terms of S of count in a times count in b.             *)
RECURSIVE CountProducts(_, _, _)
CountProducts(a, b, S) ==
    IF S = {} THEN 0
    ELSE Count(a, CHOOSE w \in S : TRUE) * Count(b, CHOOSE w \in S : TRUE)
         + CountProducts(a, b, S \ {CHOOSE w \in S : TRUE})

Million == 1000000

(* smooth idf over two documents: ln(3 / (1 + df)) + 1, which is 1 for a   *)
(* term of both texts and ln(1.5) + 1 for a term of one; the square of the *)
(* latter is 1.975332..., held as IdfSqUnshared / IdfScale.                *)
IdfScale == 1000000
IdfSqUnshared == 1975332

(* The squared norm of a tf-idf row, times IdfScale.                       *)
SquaredNorm(toks, shared) ==
    IdfScale * CountProducts(toks, toks, shared)
    + IdfSqUnshared * CountProducts(toks, toks, Range(toks) \ shared)

(* floor(10^6 * dot / sqrt(nt * ns)), the norms being scaled by IdfScale.  *)
ScaledCosine(dot, nt, ns) ==
    IF dot = 0 THEN 0
    ELSE FloorRoot(BigMul(BigOf(nt), BigOf(ns)),
                   BigSquare(BigMul(BigOf(dot), BigMul(BigOf(Million), BigOf(IdfScale)))),
                   0, Million)

(* The cosine of the two tf-idf rows, in millionths rounded down; 0 when a *)
(* row is zero (cosine_similarity leaves a zero row as it is).             *)
Cosine(tt, st) ==
    ScaledCosine(CountProducts(tt, st, Range(tt) \cap Range(st)),
                 SquaredNorm(tt, Range(tt) \cap Range(st)),
                 SquaredNorm(st, Range(tt) \cap Range(st)))

----------------------------------------------------------------------------
(* The texts, names and files the inputs are drawn from.  A text is the    *)
(* sequence of its whitespace-separated words.                             *)

X80 == Rep("aa", 7) \o Rep("cc", 5)
S80 == Rep("aa", 10) \o Rep("bb", 3) \o Rep("cc", 1)
X50 == Rep("bb", 1) \o Rep("cc", 11)
S50 == Rep("aa", 5) \o Rep("bb", 2) \o Rep("cc", 4)
SA == <<"alpha", "beta", "beta">>
P08 == <<"alpha", "alpha", "beta">>
OneLetter == <<"x">>
EmptyText == <<>>
BadPy == <<"def", "oops">>

(* ast.parse raises SyntaxError on these texts and on no other.            *)
SyntaxErrorTexts == {BadPy}

PyName(b) == [base |-> b, ext |-> ".py"]
TxtName(b) == [base |-> b, ext |-> ".txt"]
PastedName == [base |-> "Pasted Code", ext |-> ""]
NoName == [base |-> "", ext |-> ""]

File(n, t) == [name |-> n, text |-> t]

CodeFileChoices == { File(PyName("a"), X80), File(PyName("a"), OneLetter) }

SourceFileChoices == { File(PyName("a"), SA), File(TxtName("b"), EmptyText) }

PastedChoices == { EmptyText, X50, P08, BadPy }

(* Sequences without repetition of at most n members of S.                 *)
RECURSIVE Batches(_, _)
Batches(S, n) ==
    IF n = 0 THEN {<<>>}
    ELSE Batches(S, n - 1)
         \cup {Append(b, f) : b \in {c \in Batches(S, n - 1) : Len(c) = n - 1},
                              f \in S}

DistinctBatches(S, n) ==
    {b \in Batches(S, n) : \A i, j \in DOMAIN b : i # j => b[i] # b[j]}

(* What the GitHub API answers to one search: the search request itself,   *)
(* then one contents request per item.                                     *)
RemoteFile(n, how, t) == [name |-> n, fetch |-> how, content |-> t]

RemoteResponses ==
    { [search |-> "ok", files |-> <<RemoteFile("m.py", "content", S80),
                                    RemoteFile("gone.py", "no_content", EmptyText),
                                    RemoteFile("n.py", "content", S50),
                                    RemoteFile("a.py", "content", SA)>>],
      [search |-> "non200", files |-> <<>>],
      [search |-> "raises", files |-> <<>>],
      [search |-> "ok", files |-> <<RemoteFile("m.py", "content", S80),
                                    RemoteFile("bin.py", "undecodable", EmptyText)>>] }

----------------------------------------------------------------------------
(* The functions of the script.                                            *)

(* lines 53-58 *)
is_valid_python_code(content) == content \notin SyntaxErrorTexts

(* f.write(content) on a file opened "a": the bytes follow the old ones,   *)
(* so the last old word and the first new word become one word.            *)
AppendText(old, new) ==
    IF old = <<>> THEN new
    ELSE IF new = <<>> THEN old
    ELSE SubSeq(old, 1, Len(old) - 1) \o <<old[Len(old)] \o new[1]>> \o Tail(new)

(* The scores of the texts above, computed once.                           *)
TabledTargets == {X80, X50, P08, OneLetter}
TabledSources ==
    {SA, AppendText(SA, SA), AppendText(OneLetter, SA), EmptyText, S80, S50, X80, X50, P08,
     OneLetter}

RECURSIVE Tabulate(_)
Tabulate(pairs) ==
    IF pairs = {} THEN [p \in {} |-> 0]
    ELSE ((CHOOSE q \in pairs : TRUE)
             :> Cosine(Tokens((CHOOSE q \in pairs : TRUE)[1]),
                       Tokens((CHOOSE q \in pairs : TRUE)[2])))
         @@ Tabulate(pairs \ {CHOOSE q \in pairs : TRUE})

SimilarityTable == Tabulate(TabledTargets \X TabledSources)

Score(table, pair) ==
    IF pair \in DOMAIN table THEN table[pair] ELSE Cosine(Tokens(pair[1]), Tokens(pair[2]))

(* lines 63-66: fit_transform raises ValueError (empty vocabulary) when    *)
(* neither text has a token; otherwise the cosine of the two rows.         *)
check_similarity(target_text, source_text) ==
    [ raised |-> Tokens(target_text) = <<>> /\ Tokens(source_text) = <<>>,
      score  |-> Score(SimilarityTable, <<target_text, source_text>>) ]

(* lines 71-73: the query is the sequence of the joined words.             *)
MaxKeywords == 5
FirstWords(words, n) == SubSeq(words, 1, IF Len(words) < n THEN Len(words) ELSE n)

extract_keywords(code_text) ==
    IF \A i \in DOMAIN code_text : Len(code_text[i]) <= 3 THEN <<"python">>
    ELSE FirstWords(SelectSeq(code_text, LAMBDA w : Len(w) > 3), MaxKeywords)

(* lines 111-118: the contents requests, in the order of the items.        *)
NoSnippets == [raised |-> "none", value |-> <<>>]

Snippet(f, rest) ==
    [raised |-> rest.raised, value |-> <<[name |-> f.name, content |-> f.content]>> \o rest.value]

RECURSIVE FetchFiles(_)
FetchFiles(files) ==
    IF files = <<>> THEN NoSnippets
    ELSE IF Head(files).fetch = "raises"
         THEN [raised |-> "RequestException", value |-> <<>>]
    ELSE IF Head(files).fetch = "undecodable"
         THEN [raised |-> "UnicodeDecodeError", value |-> <<>>]
    ELSE IF Head(files).fetch = "no_content" THEN FetchFiles(Tail(files))
    ELSE Snippet(Head(files), FetchFiles(Tail(files)))

(* lines 96-119, given the API's answer to the query.                      *)
fetch_github_code(response) ==
    IF response.search = "raises" THEN [raised |-> "RequestException", value |-> <<>>]
    ELSE IF response.search # "ok" THEN NoSnippets
    ELSE FetchFiles(response.files)

(* line 142: round(score * 100, 2), held in hundredths of a percent.       *)
RoundPercent(score) == (score + 50) \div 100

(* RowStatus with a strict comparison: a row at the threshold is Clean.     *)
RowStatusStrict(percent, threshold) ==
    IF percent > threshold * 100 THEN "Flagged" ELSE "Clean"

(* lines 124, 143 and 158 *)
Threshold == 80
RowStatus(percent, threshold) == IF percent >= threshold * 100 THEN "Flagged" ELSE "Clean"

(* lines 144-149 and 159-165: one row; score and source_text are kept      *)
(* beside the row to state properties about the pair that was compared.    *)
ReportRow(uploaded_file_name, source, score, percent) ==
    [ uploaded |-> uploaded_file_name, source |-> source.name, percent |-> percent,
      status |-> RowStatus(percent, Threshold), score |-> score,
      source_text |-> source.content ]

(* line 138 *)
IsComparable(source_name) == source_name.ext \in {".py", ".txt"}

(* lines 135-138: the entries the local loop scores, in listdir order.     *)
LocalTargets(dirExists, entries) ==
    IF dirExists THEN SelectSeq(entries, LAMBDA e : IsComparable(e.name)) ELSE <<>>

(* line 161 *)
GitHubName(n) == [base |-> "GitHub: " \o n, ext |-> ""]

(* lines 154-155 *)
RemoteTargets(github_results) ==
    [i \in DOMAIN github_results |->
        [name |-> GitHubName(github_results[i].name), content |-> github_results[i].content]]

(* lines 141 and 156 *)
Similarities(target_text, sources) ==
    [i \in DOMAIN sources |-> check_similarity(target_text, sources[i].content)]

(* lines 134-169 over the targets and their similarities.                  *)
ReportOf(uploaded_file_name, sources, sims) ==
    [ raised |-> IF \E i \in DOMAIN sims : sims[i].raised THEN "ValueError" ELSE "none",
      df |-> [i \in DOMAIN sources |->
                ReportRow(uploaded_file_name, sources[i], sims[i].score,
                          RoundPercent(sims[i].score))] ]

(* lines 124-169, reading the directory as (dirExists, entries).           *)
generate_plagiarism_report(uploaded_file_name, target_text, github_results, dirExists, entries) ==
    ReportOf(uploaded_file_name,
             LocalTargets(dirExists, entries) \o RemoteTargets(github_results),
             Similarities(target_text,
                          LocalTargets(dirExists, entries) \o RemoteTargets(github_results)))

----------------------------------------------------------------------------
(* The blocks of the main page.                                            *)

HasEntry(entries, n) == \E i \in DOMAIN entries : entries[i].name = n

(* lines 212-215: mode "a" if the path exists, else "w".                   *)
UploadOne(entries, file) ==
    IF HasEntry(entries, file.name)
    THEN [i \in DOMAIN entries |->
            IF entries[i].name = file.name
            THEN [name |-> file.name, content |-> AppendText(entries[i].content, file.text)]
            ELSE entries[i]]
    ELSE Append(entries, [name |-> file.name, content |-> file.text])

(* lines 208-215 *)
RECURSIVE UploadBlock(_, _)
UploadBlock(entries, files) ==
    IF files = <<>> THEN entries
    ELSE UploadBlock(UploadOne(entries, Head(files)), Tail(files))

(* The submissions of one pass in the order the script takes them: the     *)
(* uploaded files (lines 238-256), then the pasted code (lines 259-272).   *)
Submissions(cf, pc) ==
    [i \in DOMAIN cf |->
        [name |-> cf[i].name, text |-> cf[i].text, check_syntax |-> cf[i].name.ext = ".py"]]
    \o (IF pc # <<>> THEN <<[name |-> PastedName, text |-> pc, check_syntax |-> TRUE]>>
        ELSE <<>>)

(* lines 241 and 263 *)
IsRejected(sub) == sub.check_syntax /\ ~is_valid_python_code(sub.text)

(* The queries the pass sends when the GitHub check is on.                 *)
Queries(cf, pc) ==
    {extract_keywords(sub.text) : sub \in {x \in Range(Submissions(cf, pc)) : ~IsRejected(x)}}

(* lines 246-249 and 266-269 *)
Fetched(sub, use_github, remote) ==
    IF use_github THEN fetch_github_code(remote[extract_keywords(sub.text)]) ELSE NoSnippets

(* lines 251-252 and 271-272 *)
Scored(sub, fetched, report) ==
    [ raised |-> IF fetched.raised # "none" THEN fetched.raised ELSE report.raised,
      scored |-> [ uploaded_name |-> sub.name, target_text |-> sub.text,
                   github_results |-> fetched.value, df |-> report.df ] ]

(* lines 246-252 and 266-272: one accepted submission.                     *)
ScoreOne(sub, fetched, dirExists, entries) ==
    Scored(sub, fetched,
           generate_plagiarism_report(sub.name, sub.text, fetched.value, dirExists, entries))

NoPass == [raised |-> "none", all_results |-> <<>>, rejected |-> <<>>]

Reject(file_name, rest) == [rest EXCEPT !.rejected = <<file_name>> \o @]

Accept(one, rest) ==
    IF one.raised # "none" THEN [NoPass EXCEPT !.raised = one.raised]
    ELSE [rest EXCEPT !.all_results = <<one.scored>> \o @]

(* lines 238-272: the scoring loop; an exception ends the script run.      *)
RECURSIVE ScoringPass(_, _, _, _, _)
ScoringPass(subs, use_github, remote, dirExists, entries) ==
    IF subs = <<>> THEN NoPass
    ELSE IF IsRejected(Head(subs))
         THEN Reject(Head(subs).name,
                     ScoringPass(Tail(subs), use_github, remote, dirExists, entries))
    ELSE Accept(ScoreOne(Head(subs), Fetched(Head(subs), use_github, remote),
                         dirExists, entries),
                ScoringPass(Tail(subs), use_github, remote, dirExists, entries))

(* line 276 *)
FinalReport(results) == Flatten([i \in DOMAIN results |-> results[i].df])

(* line 280: the rows of one key of the groupby.                           *)
GroupOf(final_report, file_name) == SelectSeq(final_report, LAMBDA r : r.uploaded = file_name)

Statuses(group) == {group[i].status : i \in DOMAIN group}

(* GroupStatus without the mixed case: one Flagged row flags the group.    *)
GroupStatusAnyFlagged(group) ==
    IF "Flagged" \in Statuses(group) THEN "Flagged" ELSE "Clean"

(* lines 281-285 *)
GroupStatus(group) ==
    IF Cardinality(Statuses(group)) = 1
    THEN (IF "Clean" \in Statuses(group) THEN "Clean" ELSE "Flagged")
    ELSE "Partial"

(* lines 279-285 *)
FileStatus(final_report) ==
    [file_name \in {final_report[i].uploaded : i \in DOMAIN final_report} |->
        GroupStatus(GroupOf(final_report, file_name))]

(* line 324 *)
MaxSimilarity(group) ==
    CHOOSE m \in {group[i].percent : i \in DOMAIN group} :
        \A i \in DOMAIN group : group[i].percent <= m

(* IsEligible with an inclusive comparison: 50 percent is still eligible.  *)
IsEligibleInclusive(status, max_similarity) ==
    status = "Clean" /\ max_similarity <= 50 * 100

(* line 327 *)
ArchivalThreshold == 50
IsEligible(status, max_similarity) ==
    status = "Clean" /\ max_similarity < ArchivalThreshold * 100

(* groupby yields its groups in the order of their keys.                   *)
NameOrder == <<PastedName, PyName("a")>>

(* lines 322-328 *)
FilteredFiles(final_report, status) ==
    SelectSeq(NameOrder,
              LAMBDA n : /\ n \in DOMAIN status
                         /\ IsEligible(status[n], MaxSimilarity(GroupOf(final_report, n))))

NoCounts == [source |-> 0, uploaded |-> 0, flagged |-> 0, clean |-> 0, partial |-> 0]

HowMany(status, s) == Cardinality({n \in DOMAIN status : status[n] = s})

(* lines 287-291 *)
SummaryCounts(status, dirExists, entries) ==
    [ source |-> IF dirExists THEN Len(entries) ELSE 0,
      uploaded |-> Cardinality(DOMAIN status),
      flagged |-> HowMany(status, "Flagged"),
      clean |-> HowMany(status, "Clean"),
      partial |-> HowMany(status, "Partial") ]

(* What a run leaves on the page.                                          *)
NoOutputs ==
    [ error |-> "none", all_results |-> <<>>, rejected |-> <<>>, file_status |-> <<>>,
      filtered_files |-> <<>>, counts |-> NoCounts ]

(* lines 279-328 *)
Reported(pass, final_report, status, dirExists, entries) ==
    [ error |-> "none", all_results |-> pass.all_results, rejected |-> pass.rejected,
      file_status |-> status, filtered_files |-> FilteredFiles(final_report, status),
      counts |-> SummaryCounts(status, dirExists, entries) ]

(* lines 276-280: groupby raises KeyError on a frame without the column,   *)
(* which is what concat makes of frames that are all empty.                *)
Combined(pass, final_report, dirExists, entries) ==
    IF final_report = <<>>
    THEN [NoOutputs EXCEPT !.error = "KeyError", !.all_results = pass.all_results,
                           !.rejected = pass.rejected]
    ELSE Reported(pass, final_report, FileStatus(final_report), dirExists, entries)

(* lines 275-328 after the scoring loop.                                   *)
Outputs(pass, dirExists, entries) ==
    IF pass.raised # "none" THEN [NoOutputs EXCEPT !.error = pass.raised]
    ELSE IF pass.all_results = <<>> THEN [NoOutputs EXCEPT !.rejected = pass.rejected]
    ELSE Combined(pass, FinalReport(pass.all_results), dirExists, entries)

(* lines 336-343: the text to save, or the empty text when none is found.  *)
ContentToSave(file_name, cf, pc) ==
    IF file_name = PastedName THEN pc
    ELSE IF \E i \in DOMAIN cf : cf[i].name = file_name
         THEN cf[CHOOSE i \in DOMAIN cf :
                    /\ cf[i].name = file_name
                    /\ \A j \in DOMAIN cf : cf[j].name = file_name => i <= j].text
         ELSE <<>>

(* lines 350-357 *)
Timestamps == {"20261105_120000", "20261105_120001"}
SavePath(file_name, timestamp, entries) ==
    IF HasEntry(entries, file_name)
    THEN [base |-> file_name.base \o "_" \o timestamp, ext |-> file_name.ext]
    ELSE file_name

(* lines 361-362: open(file_path, "w") and write.                          *)
WriteEntry(entries, path, content) ==
    IF HasEntry(entries, path)
    THEN [i \in DOMAIN entries |->
            IF entries[i].name = path THEN [name |-> path, content |-> content] ELSE entries[i]]
    ELSE Append(entries, [name |-> path, content |-> content])

NoSave(entries) == [entries |-> entries, saved |-> <<>>]

(* lines 345-366: nothing is written without content (line 345) or when    *)
(* open fails for want of the directory (line 365).                        *)
Written(content, path, dirExists, entries) ==
    IF content = <<>> \/ ~dirExists THEN NoSave(entries)
    ELSE [entries |-> WriteEntry(entries, path, content), saved |-> <<path>>]

(* lines 334-366 for the clicked button.                                   *)
SaveBlock(file_name, timestamp, cf, pc, dirExists, entries) ==
    Written(ContentToSave(file_name, cf, pc), SavePath(file_name, timestamp, entries),
            dirExists, entries)

----------------------------------------------------------------------------
(* The script runs.                                                        *)

Trigger(kind, name) == [kind |-> kind, name |-> name]

(* The store stays within MaxStoreEntries, and an upload may grow an entry *)
(* only up to MaxContentChars.                                             *)
StoreBounded(old, new) ==
    /\ Len(new) <= MaxStoreEntries
    /\ \A i \in DOMAIN new :
          \/ i \in DOMAIN old /\ new[i] = old[i]
          \/ Chars(new[i].content) <= MaxContentChars

(* lines 203-215: what the directory holds after the Admin's block.        *)
AfterUploads(sf) == IF role = "Admin" THEN UploadBlock(store, sf) ELSE store

Show(out) ==
    /\ error' = out.error
    /\ all_results' = out.all_results
    /\ rejected' = out.rejected
    /\ file_status' = out.file_status
    /\ filtered_files' = out.filtered_files
    /\ counts' = out.counts

(* One run of lines 174-375 in which "Check Plagiarism" returns False,     *)
(* with the widgets holding sf, cf, pc and gs: the Admin's block, then the *)
(* widgets, and nothing of lines 232-375.                                  *)
QuietRun(sf, cf, pc, gs, trig) ==
    \E entries \in {AfterUploads(sf)} :
        /\ StoreBounded(store, entries)
        /\ folder' = (folder \/ role = "Admin")
        /\ store' = entries
        /\ source_files' = sf
        /\ code_files' = cf
        /\ pasted_code' = pc
        /\ github_search' = (gs /\ (cf # <<>> \/ pc # <<>>))
        /\ trigger' = trig
        /\ Show(NoOutputs)
        /\ store_at_pass' = <<>>
        /\ saved' = <<>>
        /\ UNCHANGED <<page, authenticated, role>>

(* lines 334-366 for the Save button that returns True, if one does.       *)
SaveOf(out, save_idx, timestamp, dirExists, entries) ==
    IF save_idx \in DOMAIN out.filtered_files
    THEN SaveBlock(out.filtered_files[save_idx], timestamp, code_files, pasted_code,
                   dirExists, entries)
    ELSE NoSave(entries)

(* One run of lines 174-375 in which "Check Plagiarism" returns True.      *)
(* use_github is github_search and token_valid (lines 247 and 267), remote *)
(* the API's answer to each query, and save_idx the Save button that       *)
(* returns True in this run (0: none).                                     *)
CheckRun(use_github, remote, save_idx, timestamp, trig) ==
    \E dirExists \in {folder \/ role = "Admin"}, entries \in {AfterUploads(source_files)} :
      \E pass \in {ScoringPass(Submissions(code_files, pasted_code), use_github, remote,
                               dirExists, entries)} :
        \E out \in {Outputs(pass, dirExists, entries)} :
          \E save \in {SaveOf(out, save_idx, timestamp, dirExists, entries)} :
            /\ save_idx = 0 \/ save_idx \in DOMAIN out.filtered_files
            /\ StoreBounded(store, entries)
            /\ Len(save.entries) <= MaxStoreEntries
            /\ folder' = dirExists
            /\ store' = save.entries
            /\ trigger' = trig
            /\ Show(out)
            /\ store_at_pass' = entries
            /\ saved' = save.saved
            /\ UNCHANGED <<page, authenticated, role, source_files, code_files,
                           pasted_code, github_search>>

OnMain == page = "main" /\ authenticated

HasInput == code_files # <<>> \/ pasted_code # <<>>

Roles == {"Admin", "Jury"}

Init ==
    /\ page = "login"
    /\ authenticated = FALSE
    /\ role = "none"
    /\ folder = FALSE
    /\ store = <<>>
    /\ source_files = <<>>
    /\ code_files = <<>>
    /\ pasted_code = <<>>
    /\ github_search = FALSE
    /\ trigger = Trigger("start", NoName)
    /\ error = "none"
    /\ all_results = <<>>
    /\ rejected = <<>>
    /\ file_status = <<>>
    /\ filtered_files = <<>>
    /\ counts = NoCounts
    /\ store_at_pass = <<>>
    /\ saved = <<>>

(* lines 37-49: with credentials load_credentials knows, the run st.rerun  *)
(* starts shows the main page with empty widgets, where an Admin's run     *)
(* creates the directory (line 206); with others, st.error.                *)
Login(r, known) ==
    /\ page = "login"
    /\ page' = IF known THEN "main" ELSE "login"
    /\ authenticated' = IF known THEN TRUE ELSE authenticated
    /\ role' = IF known THEN r ELSE role
    /\ folder' = (folder \/ (known /\ r = "Admin"))
    /\ trigger' = Trigger("login", NoName)
    /\ error' = IF known THEN "none" ELSE "Invalid username or password"
    /\ UNCHANGED <<store, source_files, code_files, pasted_code, github_search,
                   all_results, rejected, file_status, filtered_files, counts,
                   store_at_pass, saved>>

(* lines 186-189, then the login page; the main page's widgets are gone.   *)
Logout ==
    /\ OnMain
    /\ page' = "login"
    /\ authenticated' = FALSE
    /\ source_files' = <<>>
    /\ code_files' = <<>>
    /\ pasted_code' = <<>>
    /\ github_search' = FALSE
    /\ trigger' = Trigger("logout", NoName)
    /\ Show(NoOutputs)
    /\ store_at_pass' = <<>>
    /\ saved' = <<>>
    /\ UNCHANGED <<role, folder, store>>

(* The Admin changes the files of "Upload Source Files" (line 207).        *)
SetSourceFiles(batch) ==
    /\ OnMain /\ role = "Admin"
    /\ batch # source_files
    /\ QuietRun(batch, code_files, pasted_code, github_search, Trigger("widget", NoName))

(* The user changes the files of "Upload Code File" (line 219).            *)
SetCodeFiles(batch) ==
    /\ OnMain
    /\ batch # code_files
    /\ QuietRun(source_files, batch, pasted_code, github_search, Trigger("widget", NoName))

(* The user changes the text area (line 220).                              *)
SetPastedCode(text) ==
    /\ OnMain
    /\ text # pasted_code
    /\ QuietRun(source_files, code_files, text, github_search, Trigger("widget", NoName))

(* The user ticks or unticks the checkbox (line 229), which is drawn only  *)
(* when there is something to check.                                       *)
ToggleGithub ==
    /\ OnMain /\ HasInput
    /\ QuietRun(source_files, code_files, pasted_code, ~github_search,
                Trigger("widget", NoName))

SourceFileBatches == DistinctBatches(SourceFileChoices, MaxSourceFiles)
CodeFileBatches == DistinctBatches(CodeFileChoices, MaxCodeFiles)

NoRemote == [q \in {} |-> 0]
AnyTimestamp == CHOOSE t \in Timestamps : TRUE

(* The answers the API may give to the queries of this run; the checkbox   *)
(* counts only when validate_github_token succeeds (line 228).             *)
RemoteAnswers(use_github) ==
    IF use_github THEN [Queries(code_files, pasted_code) -> RemoteResponses] ELSE {NoRemote}

(* The user clicks "Check Plagiarism" (line 231).                          *)
ClickCheck ==
    /\ OnMain /\ HasInput
    /\ \E token_valid \in (IF github_search THEN BOOLEAN ELSE {FALSE}) :
         \E remote \in RemoteAnswers(github_search /\ token_valid) :
            CheckRun(github_search /\ token_valid, remote, 0, AnyTimestamp,
                     Trigger("check", NoName))

(* The user clicks the Save button drawn for filtered_files[idx] (line     *)
(* 334).  In the run this starts "Check Plagiarism" returns False, so the  *)
(* run ends at line 231.                                                   *)
ClickSave(idx) ==
    /\ OnMain
    /\ idx \in DOMAIN filtered_files
    /\ QuietRun(source_files, code_files, pasted_code, github_search,
                Trigger("save", filtered_files[idx]))

Next ==
    \/ \E r \in Roles, known \in BOOLEAN : Login(r, known)
    \/ Logout
    \/ \E batch \in SourceFileBatches : SetSourceFiles(batch)
    \/ \E batch \in CodeFileBatches : SetCodeFiles(batch)
    \/ \E text \in PastedChoices : SetPastedCode(text)
    \/ ToggleGithub
    \/ ClickCheck
    \/ \E idx \in 1..Len(filtered_files) : ClickSave(idx)

Spec == Init /\ [][Next]_vars

(* The run lines 330-366 are written for: the user clicks the Save button  *)
(* drawn for filtered_files[idx], and in the run this starts both "Check   *)
(* Plagiarism" and the button of key save_idx return True, so that the     *)
(* save block executes, at the second timestamp.  SpecSave adds this run   *)
(* to exercise the save block.                                             *)
CheckAndSave(idx, timestamp) ==
    /\ OnMain /\ HasInput
    /\ idx \in DOMAIN filtered_files
    /\ \E token_valid \in (IF github_search THEN BOOLEAN ELSE {FALSE}) :
         \E remote \in RemoteAnswers(github_search /\ token_valid) :
            CheckRun(github_search /\ token_valid, remote, idx, timestamp,
                     Trigger("save", filtered_files[idx]))

NextSave ==
    \/ Next
    \/ \E idx \in DOMAIN NameOrder, timestamp \in Timestamps : CheckAndSave(idx, timestamp)

SpecSave == Init /\ [][NextSave]_vars

----------------------------------------------------------------------------
(* The properties.  After a run of the check block, all_results holds the  *)
(* submissions scored without an exception, store_at_pass the directory as *)
(* the scoring loop read it and folder whether it existed.                 *)

(* The submissions lines 241 and 263 accept, from the widgets as they are. *)
Accepted == SelectSeq(Submissions(code_files, pasted_code), LAMBDA s : ~IsRejected(s))

(* The rows of the combined report of the last run.                        *)
Rows == FinalReport(all_results)

RowsOf(file_name) == GroupOf(Rows, file_name)

(* The largest score among the rows of a name, in millionths.              *)
MaxScore(file_name) ==
    CHOOSE m \in {RowsOf(file_name)[k].score : k \in DOMAIN RowsOf(file_name)} :
        \A k \in DOMAIN RowsOf(file_name) : RowsOf(file_name)[k].score <= m

LocalEmpty == ~folder \/ store_at_pass = <<>>

(* The number of entries the scoring loop found in the directory.          *)
StoreSize == IF folder THEN Len(store_at_pass) ELSE 0

(* C1: every accepted submission with at least one row has a status, and   *)
(* the status of a name is Clean iff every row of the combined report      *)
(* carrying that name is Clean, Flagged iff every such row is Flagged, and *)
(* Partial iff one such row is Flagged and another Clean.                  *)
C1_StatusMatchesRows ==
    error = "none" =>
        /\ \A i \in DOMAIN all_results :
              all_results[i].df # <<>> => all_results[i].uploaded_name \in DOMAIN file_status
        /\ \A n \in DOMAIN file_status :
              /\ RowsOf(n) # <<>>
              /\ file_status[n] = "Clean"
                    <=> \A k \in DOMAIN RowsOf(n) : RowsOf(n)[k].status = "Clean"
              /\ file_status[n] = "Flagged"
                    <=> \A k \in DOMAIN RowsOf(n) : RowsOf(n)[k].status = "Flagged"
              /\ file_status[n] = "Partial"
                    <=> /\ \E k \in DOMAIN RowsOf(n) : RowsOf(n)[k].status = "Flagged"
                        /\ \E k \in DOMAIN RowsOf(n) : RowsOf(n)[k].status = "Clean"

(* A name with a Flagged row and a Clean row, reported Partial.            *)
C1_Witness ==
    \E n \in DOMAIN file_status :
        /\ file_status[n] = "Partial"
        /\ \E k \in DOMAIN RowsOf(n) : RowsOf(n)[k].status = "Flagged"
        /\ \E k \in DOMAIN RowsOf(n) : RowsOf(n)[k].status = "Clean"

(* C2, as the code has it: every row carries the score check_similarity    *)
(* gives for its pair, and is Flagged exactly when that score times 100,   *)
(* rounded to two decimals, is at least 80 (a score of at least 0.79995),  *)
(* and Clean otherwise; a score of exactly 0.80 is Flagged.                *)
C2_FlaggedFromRoundedPercent ==
    \A i \in DOMAIN all_results : \A k \in DOMAIN all_results[i].df :
        /\ all_results[i].df[k].score
              = check_similarity(all_results[i].target_text,
                                 all_results[i].df[k].source_text).score
        /\ all_results[i].df[k].status \in {"Flagged", "Clean"}
        /\ all_results[i].df[k].status = "Flagged"
              <=> all_results[i].df[k].score >= Threshold * 10000 - 50

(* A row whose score is exactly 0.80, Flagged.                             *)
C2_Witness ==
    \E k \in DOMAIN Rows : Rows[k].score = Threshold * 10000 /\ Rows[k].status = "Flagged"

(* C2 as stated: a row is Flagged exactly when its score is at least 0.80. *)
C2_FlaggedFromScore ==
    \A k \in DOMAIN Rows :
        Rows[k].status = "Flagged" <=> Rows[k].score >= Threshold * 10000

(* C3, as the code has it: a name is listed as eligible exactly when its   *)
(* status is Clean and the largest score among its rows, times 100 and     *)
(* rounded to two decimals, is below 50 (a score below 0.49995); no        *)
(* Flagged or Partial name is listed.                                      *)
C3_EligibleFromRoundedPercent ==
    /\ \A k \in DOMAIN filtered_files : filtered_files[k] \in DOMAIN file_status
    /\ \A n \in DOMAIN file_status :
          n \in Range(filtered_files)
             <=> file_status[n] = "Clean" /\ MaxScore(n) < ArchivalThreshold * 10000 - 50

(* A Clean name that is not listed, beside or without a listed one.        *)
C3_Witness ==
    \E n \in DOMAIN file_status :
        /\ file_status[n] = "Clean"
        /\ n \notin Range(filtered_files)
        /\ MaxScore(n) >= ArchivalThreshold * 10000 - 50

(* C3 as stated: a name is listed exactly when its status is Clean and the *)
(* largest score among its rows is below 0.50.                             *)
C3_EligibleFromScore ==
    \A n \in DOMAIN file_status :
        n \in Range(filtered_files)
           <=> file_status[n] = "Clean" /\ MaxScore(n) < ArchivalThreshold * 10000

(* C4: a submission scored against an empty or absent directory and no     *)
(* remote candidate has no row, and still the run reports it Clean and     *)
(* lists it as eligible.                                                   *)
C4_ZeroComparisonsClean ==
    \A i \in DOMAIN all_results :
        (LocalEmpty /\ all_results[i].github_results = <<>>) =>
            /\ all_results[i].df = <<>>
            /\ error = "none"
            /\ all_results[i].uploaded_name \in DOMAIN file_status
            /\ file_status[all_results[i].uploaded_name] = "Clean"
            /\ all_results[i].uploaded_name \in Range(filtered_files)

(* C5: when the check block has run over an accepted submission and a      *)
(* local target of which one has no token, check_similarity has not raised *)
(* and gives the pair the score 0.                                         *)
C5_DegenerateScoresZero ==
    trigger.kind = "check" =>
        \A s \in Range(Accepted), e \in Range(LocalTargets(folder, store_at_pass)) :
            (Tokens(s.text) = <<>> \/ Tokens(e.content) = <<>>) =>
                /\ error # "ValueError"
                /\ ~check_similarity(s.text, e.content).raised
                /\ check_similarity(s.text, e.content).score = 0

(* C6: no failure of the remote calls ends the run of the check block:     *)
(* the run goes on to score every accepted submission.                     *)
C6_RemoteFailureContained ==
    trigger.kind = "check" =>
        /\ error \notin {"RequestException", "UnicodeDecodeError"}
        /\ error = "none" => Len(all_results) = Len(Accepted)

C8_OneVerdictPerSubmission ==
    (error = "none" /\ all_results # <<>>) =>
        /\ counts.uploaded = Len(all_results)
        /\ counts.flagged + counts.clean + counts.partial = Len(all_results)

C10_SaveWrites ==
    trigger.kind = "save" =>
        /\ saved # <<>>
        /\ \E i \in DOMAIN store :
              store[i].content = ContentToSave(trigger.name, code_files, pasted_code)

====
